---- MODULE Spec2Model ----
(***************************************************************************)
(* The frame loop of src/src/main.rs: random-walk simulation, rewind       *)
(* buffer with a history slider, camera pan/zoom, JSON save/load.          *)
(*                                                                         *)
(* Units.  speed is counted in steps of 0.5 (the speed slider's step), a   *)
(* frame time in halves of a second, so elapsed_time is counted in         *)
(* quarters of a simulated second and rewind_interval = 0.5 is 2.          *)
(* camera.zoom is counted in thousandths, camera.target in thousandths of  *)
(* a world unit, pointer positions in pixels of an 800 x 600 window.       *)
(* Entity coordinates are the integer-valued f32 values, with their        *)
(* rounding above 2^24, and +infinity.                                     *)
(***************************************************************************)
EXTENDS Integers, Sequences, FiniteSets, TLC

\* ---------------------------------------------------------------- bounds
MaxBuf == 3            \* longest rewind_buffer explored
MaxPans == 2           \* changes of the camera explored between two focus clicks

\* ---------------------------------------------------- program constants
RewindInterval == 2    \* rewind_interval = 0.5, in quarters of a second
MinZoom == 8           \* min_zoom = 0.008
MaxZoom == 200         \* max_zoom = 0.2
InitZoom == 10         \* zoom: vec2(0.01, 0.01)
ZoomSpeed == 1         \* zoom_speed = 0.001
InitSpeed == 2         \* speed = 1.0
HomeTarget == 50000    \* vec2(50.0, 50.0), both axes
InitCoord == 50        \* Entity::new(50.0, 50.0), both axes

\* ------------------------------------------------------------ f32 values
\* Integers up to 2^24 are f32 values; above, only every second integer is.
F32Exact == 16777216
\* Encoding of f32::INFINITY.
F32Inf == 2000000000

\* The f32 nearest to the integer n (ties to the even mantissa), for
\* |n| < 2^25.
RoundF32(n) ==
    LET a == IF n < 0 THEN -n ELSE n
        r == IF a <= F32Exact \/ a % 2 = 0 THEN a
             ELSE IF (a + 1) % 4 = 0 THEN a + 1 ELSE a - 1
    IN  IF n < 0 THEN -r ELSE r

\* x + d in f32 arithmetic (d is +1 or -1).
F32Add(x, d) == IF x = F32Inf THEN F32Inf ELSE RoundF32(x + d)

\* ------------------------------------------------------- simulation state
Entity(x, y) == [x |-> x, y |-> y]

SimulationState(entities, time) == [entities |-> entities, time |-> time]

\* The move of one entity for one draw of rand::gen_range(1, 5).
MoveEntity(e, draw) ==
    CASE draw = 1 -> [e EXCEPT !.x = F32Add(e.x, -1)]
      [] draw = 2 -> [e EXCEPT !.x = F32Add(e.x, 1)]
      [] draw = 3 -> [e EXCEPT !.y = F32Add(e.y, -1)]
      [] OTHER    -> [e EXCEPT !.y = F32Add(e.y, 1)]

\* The values rand::gen_range(1, 5) returns.
Draws == 1..4

\* update_simulation: draws[k] is the number drawn for the k-th entity;
\* dt is not read.
update_simulation(st, dt, draws) ==
    [st EXCEPT !.entities =
        [k \in 1..Len(st.entities) |-> MoveEntity(st.entities[k], draws[k])]]

\* ------------------------------------------------------------------ JSON
\* A JSON number is an integer literal, the literal 1e39, or null.
Json1e39 == 1000000000
JsonNull == -1000000000

\* serde_json writes a finite float as its shortest decimal, a non-finite
\* one as null.
PrintF32(v) == IF v = F32Inf THEN JsonNull ELSE v

\* serde_json reads a number as f64 and serde casts it to f32.
ParseF32(n) == IF n = Json1e39 THEN F32Inf ELSE RoundF32(n)

FileMissing == [kind |-> "missing", entities |-> << >>, time |-> 0]
FileMalformed == [kind |-> "malformed", entities |-> << >>, time |-> 0]

\* serde_json::to_string_pretty(state): the document written by Save.
ToJson(st) ==
    [kind |-> "json",
     entities |-> [k \in 1..Len(st.entities) |->
                      [x |-> PrintF32(st.entities[k].x),
                       y |-> PrintF32(st.entities[k].y)]],
     time |-> st.time]

\* Whether serde_json::from_str::<SimulationState> accepts the document.
Parses(doc) ==
    /\ doc.kind = "json"
    /\ \A k \in 1..Len(doc.entities) :
          doc.entities[k].x # JsonNull /\ doc.entities[k].y # JsonNull

\* serde_json::from_str(doc), for a document that parses.
FromJson(doc) ==
    SimulationState(
        [k \in 1..Len(doc.entities) |->
            Entity(ParseF32(doc.entities[k].x), ParseF32(doc.entities[k].y))],
        doc.time)

\* What simulation_state.json may hold when the program starts.
InitialFiles ==
    { FileMissing,
      FileMalformed,
      [kind |-> "json",
       entities |-> << [x |-> F32Exact, y |-> Json1e39],
                     [x |-> Json1e39, y |-> Json1e39] >>,
       time |-> 3] }

\* ------------------------------------------------------------- variables
VARIABLES
    state,               \* the working SimulationState
    paused,
    speed,
    elapsed_time,
    rewind_buffer,       \* Vec<SimulationState>; Entry(i) is rewind_buffer[i]
    slider_value,
    max_buffer_index,
    current_index,
    frame_time,          \* get_frame_time() of this frame while dt is live, else 0
    camera,              \* [zoom |-> [x, y], target |-> [x, y]]
    old_mouse_position,
    file,                \* contents of simulation_state.json
    pc,                  \* the stage of the loop body that runs next
    \* history variables: what has happened, not read by the program
    last,                \* the operation that made the last step
    resume_from,         \* scrub index of a resume with no slider move, load or later snapshot since, or -1
    stale,               \* indices left behind by resumes from an earlier index
    wall,                \* running frame time of the current interval; -1 once the speed changed in it
    loaded,              \* the last Load, until the history stage that ends its frame of reference
    updates,             \* calls of update_simulation so far
    pans                 \* changes of the camera since the last focus click

progVars == << state, paused, speed, elapsed_time, rewind_buffer, slider_value,
               max_buffer_index, current_index, frame_time, camera,
               old_mouse_position, file, pc >>
histVars == << last, resume_from, stale, wall, loaded, updates, pans >>
vars == << progVars, histVars >>

bufferVars == << rewind_buffer, max_buffer_index, slider_value, current_index >>
cameraVars == << camera, old_mouse_position, pans >>
scrubVars == << resume_from, stale, wall, loaded, updates >>

\* No Load is being followed.
NoLoad == [pending |-> FALSE, running |-> FALSE,
           st |-> SimulationState(<< >>, 0)]

\* rewind_buffer[i] with the program's 0-based index.
Entry(i) == rewind_buffer[i + 1]

Init ==
    /\ state = SimulationState(<< Entity(InitCoord, InitCoord) >>, 0)
    /\ paused = FALSE
    /\ speed = InitSpeed
    /\ elapsed_time = 0
    /\ rewind_buffer = << SimulationState(<< Entity(InitCoord, InitCoord) >>, 0) >>
    /\ slider_value = 0
    /\ max_buffer_index = 0
    /\ current_index = 0
    /\ frame_time = 0
    /\ camera = [zoom |-> [x |-> InitZoom, y |-> InitZoom],
                 target |-> [x |-> HomeTarget, y |-> HomeTarget]]
    /\ old_mouse_position = << 400, 300 >>
    /\ file \in InitialFiles
    /\ pc = "input"
    /\ last = "init"
    /\ resume_from = -1
    /\ stale = {}
    /\ wall = 0
    /\ loaded = NoLoad
    /\ updates = 0
    /\ pans = 0

\* ------------------------------------------------------------ the frame
\* Faulty variant: a frame may take no time.
FrameTimes_zero == {0, 1}

\* The frame times explored, in half seconds.
FrameTimes == {1, 2}

\* The values the speed slider is moved to, in steps of 0.5.
Speeds == {1, 2}

\* elapsed_time >= rewind_interval
SnapshotDue(acc) == acc >= RewindInterval

\* current_index != max_buffer_index
ResyncNeeded == current_index # max_buffer_index

\* Faulty variant: the re-synchronisation reloads the newest entry.
ResyncIndex_latest == max_buffer_index

\* The index read by the re-synchronisation, rewind_buffer[slider_value].
ResyncIndex == slider_value

\* Faulty variant: the entries after the slider are dropped before the push.
Pushed_truncate(new) == Append(SubSeq(rewind_buffer, 1, slider_value + 1), new)

\* rewind_buffer.push(state.clone())
Pushed(new) == Append(rewind_buffer, new)

\* Faulty variant: the index of the newest entry is taken to be the length.
LastIndex_len(buf) == Len(buf)

\* rewind_buffer.len() - 1
LastIndex(buf) == Len(buf) - 1

\* Faulty variant: the slider is left on the entry before the new one.
SliderAfterSnapshot_prev(m) == m - 1

\* slider_value = max_buffer_index, after a snapshot.
SliderAfterSnapshot(m) == m

\* Faulty variant: the time beyond the interval is carried over.
ElapsedAfterSnapshot_carry(acc) == acc - RewindInterval

\* elapsed_time = 0.0, after a snapshot.
ElapsedAfterSnapshot(acc) == 0

\* Faulty variant: the slider ranges over 0..=rewind_buffer.len().
SliderRange_wide == 0..(max_buffer_index + 1)

\* Faulty variant: a paused frame shows the newest entry.
ScrubIndex_latest == max_buffer_index

\* The index a paused frame reads, rewind_buffer[slider_value].
ScrubIndex == slider_value

\* The range of the "Time" slider, 0..=max_buffer_index.
SliderRange == 0..max_buffer_index

\* let dt = get_frame_time() * speed
dt == frame_time * speed

\* Running frame time of the interval that is accumulating, or -1.
IntervalWall == IF elapsed_time = 0 THEN 0 ELSE wall

\* The scrub index of the resume, forgotten once its snapshot is stored.
KeepResume == IF last = "HistoryResync" THEN -1 ELSE resume_from

\* The index of rewind_buffer a history stage is about to read, or -1.
ReadIndex ==
    IF paused
    THEN IF slider_value < Len(rewind_buffer) THEN ScrubIndex ELSE -1
    ELSE IF SnapshotDue(elapsed_time + dt) /\ ResyncNeeded THEN ResyncIndex ELSE -1

\* The input stage of a frame in which the pointer rests, no key is held and
\* the wheel is still.
NoCameraInput ==
    /\ pc = "input"
    /\ frame_time' \in FrameTimes
    /\ pc' = "history"
    /\ last' = "NoCameraInput"
    /\ UNCHANGED << state, paused, speed, elapsed_time, bufferVars,
                    cameraVars, file, scrubVars >>

\* Faulty variant: the entities move in every running frame.
HistoryAccumulate_update ==
    /\ pc = "history"
    /\ ~paused
    /\ ~SnapshotDue(elapsed_time + dt)
    /\ elapsed_time' = elapsed_time + dt
    /\ \E draws \in [1..Len(state.entities) -> Draws] :
          state' = update_simulation(state, dt, draws)
    /\ updates' = updates + 1
    /\ wall' = IF IntervalWall = -1 THEN -1 ELSE IntervalWall + frame_time
    /\ frame_time' = 0
    /\ pc' = "ui"
    /\ last' = "HistoryAccumulate"
    /\ UNCHANGED << paused, speed, bufferVars, cameraVars, file,
                    resume_from, stale, loaded >>

\* A running frame whose accumulated time stays below the interval.
HistoryAccumulate ==
    /\ pc = "history"
    /\ ~paused
    /\ ~SnapshotDue(elapsed_time + dt)
    /\ elapsed_time' = elapsed_time + dt
    /\ wall' = IF IntervalWall = -1 THEN -1 ELSE IntervalWall + frame_time
    /\ frame_time' = 0
    /\ pc' = "ui"
    /\ last' = "HistoryAccumulate"
    /\ UNCHANGED << state, paused, speed, bufferVars, cameraVars, file,
                    resume_from, stale, loaded, updates >>

\* Faulty variant: the snapshot is pushed before the update.
StoreSnapshot_early(base, from) ==
    \E draws \in [1..Len(base.entities) -> Draws] :
       LET new == update_simulation(base, dt, draws)
           buf == Pushed(base)
       IN  /\ state' = new
           /\ rewind_buffer' = buf
           /\ max_buffer_index' = LastIndex(buf)
           /\ slider_value' = SliderAfterSnapshot(LastIndex(buf))
           /\ current_index' = from + 1
           /\ elapsed_time' = ElapsedAfterSnapshot(elapsed_time + dt)
           /\ wall' = IF IntervalWall = -1 THEN -1 ELSE IntervalWall + frame_time
           /\ updates' = updates + 1
           /\ frame_time' = 0
           /\ pc' = "ui"

\* update_simulation on base, the snapshot and the bookkeeping after it;
\* from is current_index before its increment.
StoreSnapshot(base, from) ==
    \E draws \in [1..Len(base.entities) -> Draws] :
       LET new == update_simulation(base, dt, draws)
           buf == Pushed(new)
       IN  /\ state' = new
           /\ rewind_buffer' = buf
           /\ max_buffer_index' = LastIndex(buf)
           /\ slider_value' = SliderAfterSnapshot(LastIndex(buf))
           /\ current_index' = from + 1
           /\ elapsed_time' = ElapsedAfterSnapshot(elapsed_time + dt)
           /\ wall' = IF IntervalWall = -1 THEN -1 ELSE IntervalWall + frame_time
           /\ updates' = updates + 1
           /\ frame_time' = 0
           /\ pc' = "ui"

\* A running frame that stores a snapshot of the advanced working state.
HistorySnapshot ==
    /\ pc = "history"
    /\ ~paused
    /\ Len(rewind_buffer) < MaxBuf
    /\ SnapshotDue(elapsed_time + dt)
    /\ ~ResyncNeeded
    /\ StoreSnapshot(state, current_index)
    /\ last' = "HistorySnapshot"
    /\ loaded' = NoLoad
    /\ UNCHANGED << paused, speed, cameraVars, file, resume_from, stale >>

\* A running frame that stores a snapshot after a scrub: the working state
\* is first reloaded from the buffer.
HistoryResync ==
    /\ pc = "history"
    /\ ~paused
    /\ Len(rewind_buffer) < MaxBuf
    /\ SnapshotDue(elapsed_time + dt)
    /\ ResyncNeeded
    /\ IF ResyncIndex >= Len(rewind_buffer)
       THEN \* the index panics
            /\ pc' = "aborted"
            /\ elapsed_time' = elapsed_time + dt
            /\ current_index' = max_buffer_index
            /\ UNCHANGED << state, rewind_buffer, max_buffer_index,
                            slider_value, frame_time, wall, updates >>
       ELSE StoreSnapshot(Entry(ResyncIndex), max_buffer_index)
    /\ last' = "HistoryResync"
    /\ loaded' = NoLoad
    /\ UNCHANGED << paused, speed, cameraVars, file, resume_from, stale >>

\* A Load made while paused stops being followed at the paused history
\* stage after it; what it had loaded is remembered for one more step.
AfterPausedStage ==
    IF loaded.pending /\ ~loaded.running
    THEN [loaded EXCEPT !.pending = FALSE]
    ELSE loaded

\* The Load that is still followed, if any.
KeepLoad == IF loaded.pending THEN loaded ELSE NoLoad

\* Faulty variant: a paused frame reloads the working state only when the
\* slider is off the entry shown.
HistoryPaused_onMove ==
    /\ pc = "history"
    /\ paused
    /\ IF slider_value < Len(rewind_buffer) /\ slider_value # current_index
       THEN /\ state' = Entry(ScrubIndex)
            /\ current_index' = slider_value
       ELSE UNCHANGED << state, current_index >>
    /\ frame_time' = 0
    /\ pc' = "ui"
    /\ last' = "HistoryPaused"
    /\ loaded' = AfterPausedStage
    /\ UNCHANGED << paused, speed, elapsed_time, rewind_buffer, max_buffer_index,
                    slider_value, cameraVars, file, resume_from, stale, wall,
                    updates >>

\* Faulty variant: a paused frame drops the time accumulated so far.
HistoryPaused_reset ==
    /\ pc = "history"
    /\ paused
    /\ IF slider_value < Len(rewind_buffer)
       THEN /\ state' = Entry(ScrubIndex)
            /\ current_index' = slider_value
       ELSE UNCHANGED << state, current_index >>
    /\ elapsed_time' = 0
    /\ frame_time' = 0
    /\ pc' = "ui"
    /\ last' = "HistoryPaused"
    /\ loaded' = AfterPausedStage
    /\ UNCHANGED << paused, speed, rewind_buffer, max_buffer_index,
                    slider_value, cameraVars, file, resume_from, stale, wall,
                    updates >>

\* A paused frame: the working state follows the slider.
HistoryPaused ==
    /\ pc = "history"
    /\ paused
    /\ IF slider_value < Len(rewind_buffer)
       THEN /\ state' = Entry(ScrubIndex)
            /\ current_index' = slider_value
       ELSE UNCHANGED << state, current_index >>
    /\ frame_time' = 0
    /\ pc' = "ui"
    /\ last' = "HistoryPaused"
    /\ loaded' = AfterPausedStage
    /\ UNCHANGED << paused, speed, elapsed_time, rewind_buffer, max_buffer_index,
                    slider_value, cameraVars, file, resume_from, stale, wall,
                    updates >>

\* ------------------------------------------------------------ the camera
\* Where the pointer is seen: the centre of the window and its top right
\* corner.
MousePositions == { << 400, 300 >>, << 800, 0 >> }

\* The arrow keys held in a frame: none, or one of them.
KeySets == { {}, {"Right"}, {"Left"}, {"Up"}, {"Down"} }

\* The sign of mouse_wheel().1.
Scrolls == {-1, 0, 1}

\* a / b for b > 0, rounded towards zero.
Quot(a, b) == IF a >= 0 THEN a \div b ELSE -((-a) \div b)

\* move_speed / zoom, for one axis: 0.001 / (z / 1000) world units.
KeyStep(z) == Quot(1000, z)

\* mouse_delta * (-1.0 / camera.zoom) * move_speed, for one axis.
DragStep(d, z) == Quot(-(d * 1000), z)

\* Faulty variant: the upper bound is not applied.
Clamp_open(z) == IF z < MinZoom THEN MinZoom ELSE z

\* Vec2::clamp, for one axis.
Clamp(z) == IF z < MinZoom THEN MinZoom ELSE IF z > MaxZoom THEN MaxZoom ELSE z

\* camera.screen_to_world(p): the pointer in normalised device coordinates,
\* divided by the zoom, from the target.
ScreenToWorld(cam, p) ==
    [x |-> cam.target.x + Quot((p[1] - 400) * 2500, cam.zoom.x),
     y |-> cam.target.y + Quot((300 - p[2]) * 10000, 3 * cam.zoom.y)]

\* Where set_camera(&camera) draws the world point w, in pixels: the inverse
\* of ScreenToWorld.
WorldToScreen(cam, w) ==
    << 400 + Quot((w.x - cam.target.x) * cam.zoom.x, 2500),
       300 - Quot((w.y - cam.target.y) * 3 * cam.zoom.y, 10000) >>

\* The pointer is read; with the left button down the camera is dragged.
MousePan ==
    /\ pc = "input"
    /\ \E current_mouse_position \in MousePositions, down \in BOOLEAN :
          LET dx == current_mouse_position[1] - old_mouse_position[1]
              dy == old_mouse_position[2] - current_mouse_position[2]
              moved == down /\ current_mouse_position # old_mouse_position
          IN  /\ moved => pans < MaxPans
              /\ camera' = IF down
                           THEN [camera EXCEPT
                                   !.target.x = @ + DragStep(dx, camera.zoom.x),
                                   !.target.y = @ + DragStep(dy, camera.zoom.y)]
                           ELSE camera
              /\ pans' = IF moved THEN pans + 1 ELSE pans
              /\ old_mouse_position' = current_mouse_position
    /\ pc' = "keys"
    /\ last' = "MousePan"
    /\ UNCHANGED << state, paused, speed, elapsed_time, bufferVars, frame_time,
                    file, scrubVars >>

\* The arrow keys move the camera.
KeyPan ==
    /\ pc = "keys"
    /\ \E keys \in KeySets :
          LET right == IF "Right" \in keys THEN KeyStep(camera.zoom.x) ELSE 0
              left  == IF "Left" \in keys THEN KeyStep(camera.zoom.x) ELSE 0
              up    == IF "Up" \in keys THEN KeyStep(camera.zoom.y) ELSE 0
              down  == IF "Down" \in keys THEN KeyStep(camera.zoom.y) ELSE 0
          IN  /\ keys # {} => pans < MaxPans
              /\ camera' = [camera EXCEPT !.target.x = @ + right - left,
                                          !.target.y = @ - up + down]
              /\ pans' = IF keys # {} THEN pans + 1 ELSE pans
    /\ pc' = "wheel"
    /\ last' = "KeyPan"
    /\ UNCHANGED << state, paused, speed, elapsed_time, bufferVars, frame_time,
                    old_mouse_position, file, scrubVars >>

\* The mouse wheel re-centres the camera on the pointer and zooms.
WheelZoom ==
    /\ pc = "wheel"
    /\ \E scroll \in Scrolls :
          LET mouse_world_pos == ScreenToWorld(camera, old_mouse_position)
              moved == scroll # 0
          IN  /\ moved => pans < MaxPans
              /\ camera' = IF scroll # 0
                           THEN [target |-> mouse_world_pos,
                                 zoom |-> [x |-> Clamp(camera.zoom.x + ZoomSpeed * scroll),
                                           y |-> Clamp(camera.zoom.y + ZoomSpeed * scroll)]]
                           ELSE camera
              /\ pans' = IF moved THEN pans + 1 ELSE pans
              /\ last' = IF scroll # 0 THEN "WheelZoom" ELSE "WheelStill"
    /\ pc' = "history"
    /\ UNCHANGED << state, paused, speed, elapsed_time, bufferVars, frame_time,
                    old_mouse_position, file, scrubVars >>

\* The history stage as the camera sees it: it reads and writes no field of
\* the camera, and what it does to the simulation is left out.
HistoryStage ==
    /\ pc = "history"
    /\ pc' = "ui"
    /\ last' = "HistoryStage"
    /\ UNCHANGED << state, paused, speed, elapsed_time, bufferVars, frame_time,
                    cameraVars, file, scrubVars >>

\* ---------------------------------------------------------- the top menu
\* One control of the menu responds in a frame, or none does.

\* "Pause/Resume" clicked.
ClickPause ==
    /\ pc = "ui"
    /\ paused' = ~paused
    /\ IF paused /\ slider_value < max_buffer_index
       THEN /\ resume_from' = slider_value
            /\ stale' = stale \cup ((slider_value + 1)..max_buffer_index)
       ELSE /\ resume_from' = -1
            /\ stale' = stale
    /\ pc' = "input"
    /\ last' = "ClickPause"
    /\ loaded' = KeepLoad
    /\ UNCHANGED << updates, state, speed, elapsed_time, bufferVars, frame_time,
                    cameraVars, file, wall >>

\* The "Speed" slider moved.
MoveSpeedSlider ==
    /\ pc = "ui"
    /\ \E s \in Speeds \ {speed} : speed' = s
    /\ wall' = IF elapsed_time = 0 THEN wall ELSE -1
    /\ resume_from' = KeepResume
    /\ pc' = "input"
    /\ last' = "MoveSpeedSlider"
    /\ loaded' = KeepLoad
    /\ UNCHANGED << updates, state, paused, elapsed_time, bufferVars, frame_time,
                    cameraVars, file, stale >>

\* The "Time" slider moved.
MoveTimeSlider ==
    /\ pc = "ui"
    /\ \E v \in SliderRange \ {slider_value} : slider_value' = v
    /\ resume_from' = -1
    /\ pc' = "input"
    /\ last' = "MoveTimeSlider"
    /\ loaded' = KeepLoad
    /\ UNCHANGED << updates, state, paused, speed, elapsed_time, rewind_buffer,
                    max_buffer_index, current_index, frame_time, cameraVars,
                    file, stale, wall >>

\* save_simulation_state, from the "Save" button: the expect() panics when
\* std::fs::write fails, with the file as it was (not opened) or cut short.
ClickSave ==
    /\ pc = "ui"
    /\ \/ /\ file' = ToJson(state)
          /\ pc' = "input"
       \/ /\ file' \in {file, FileMalformed}
          /\ pc' = "aborted"
    /\ resume_from' = KeepResume
    /\ last' = "ClickSave"
    /\ loaded' = KeepLoad
    /\ UNCHANGED << updates, state, paused, speed, elapsed_time, bufferVars, frame_time,
                    cameraVars, stale, wall >>

\* The Load that is clicked now, if the file parses.
Loading ==
    IF Parses(file)
    THEN [pending |-> TRUE, running |-> ~paused, st |-> FromJson(file)]
    ELSE KeepLoad

\* Faulty variant: a load restarts the history from the loaded state.
ClickLoad_reset ==
    /\ pc = "ui"
    /\ IF Parses(file)
       THEN /\ state' = FromJson(file)
            /\ rewind_buffer' = << FromJson(file) >>
            /\ max_buffer_index' = 0
            /\ slider_value' = 0
            /\ current_index' = 0
            /\ pc' = "input"
       ELSE /\ pc' = "aborted"
            /\ UNCHANGED << state, bufferVars >>
    /\ resume_from' = -1
    /\ last' = "ClickLoad"
    /\ loaded' = Loading
    /\ updates' = updates
    /\ UNCHANGED << paused, speed, elapsed_time, frame_time,
                    cameraVars, file, stale, wall >>

\* Faulty variant: a load that fails falls back to the initial state.
ClickLoad_default ==
    /\ pc = "ui"
    /\ state' = IF Parses(file)
                THEN FromJson(file)
                ELSE SimulationState(<< Entity(InitCoord, InitCoord) >>, 0)
    /\ pc' = "input"
    /\ resume_from' = -1
    /\ last' = "ClickLoad"
    /\ loaded' = Loading
    /\ updates' = updates
    /\ UNCHANGED << paused, speed, elapsed_time, bufferVars, frame_time,
                    cameraVars, file, stale, wall >>

\* load_simulation_state, from the "Load" button: the expect()s panic on a
\* file that is missing or does not parse.
ClickLoad ==
    /\ pc = "ui"
    /\ IF Parses(file)
       THEN /\ state' = FromJson(file)
            /\ pc' = "input"
       ELSE /\ pc' = "aborted"
            /\ state' = state
    /\ resume_from' = -1
    /\ last' = "ClickLoad"
    /\ loaded' = Loading
    /\ updates' = updates
    /\ UNCHANGED << paused, speed, elapsed_time, bufferVars, frame_time,
                    cameraVars, file, stale, wall >>

\* "focus" clicked.
ClickFocus ==
    /\ pc = "ui"
    /\ camera' = [camera EXCEPT !.target = [x |-> HomeTarget, y |-> HomeTarget]]
    /\ pans' = 0
    /\ resume_from' = KeepResume
    /\ pc' = "input"
    /\ last' = "ClickFocus"
    /\ loaded' = KeepLoad
    /\ UNCHANGED << updates, state, paused, speed, elapsed_time, bufferVars, frame_time,
                    old_mouse_position, file, stale, wall >>

\* No control of the menu is touched in this frame.
Untouched ==
    /\ pc = "ui"
    /\ resume_from' = KeepResume
    /\ pc' = "input"
    /\ last' = "Untouched"
    /\ loaded' = KeepLoad
    /\ UNCHANGED << updates, state, paused, speed, elapsed_time, bufferVars, frame_time,
                    cameraVars, file, stale, wall >>

Next ==
    \/ NoCameraInput
    \/ HistoryAccumulate
    \/ HistorySnapshot
    \/ HistoryResync
    \/ HistoryPaused
    \/ ClickPause
    \/ MoveSpeedSlider
    \/ MoveTimeSlider
    \/ ClickSave
    \/ ClickLoad
    \/ Untouched

Spec == Init /\ [][Next]_vars

\* The frames of an execution in which "Load" is never clicked.
NextNoLoad ==
    \/ NoCameraInput
    \/ HistoryAccumulate
    \/ HistorySnapshot
    \/ HistoryResync
    \/ HistoryPaused
    \/ ClickPause
    \/ MoveSpeedSlider
    \/ MoveTimeSlider
    \/ ClickSave
    \/ Untouched

SpecNoLoad == Init /\ [][NextNoLoad]_vars

\* The frames as the history sees them when "Save" and "Load" are left
\* alone: what they write, the file and the working state, decides neither
\* whether nor when a snapshot is taken.
NextLive ==
    \/ NoCameraInput
    \/ HistoryAccumulate
    \/ HistorySnapshot
    \/ HistoryResync
    \/ HistoryPaused
    \/ ClickPause
    \/ MoveSpeedSlider
    \/ MoveTimeSlider
    \/ Untouched

\* The frame loop never stops by itself: main's loop has no exit but a panic,
\* so a stage that can run does run.  The file, which these frames neither
\* read nor write, is taken to be missing.
InitLive == Init /\ file = FileMissing

SpecLive == InitLive /\ [][NextLive]_vars /\ WF_vars(NextLive)

\* The frames as the camera sees them: pointer, keys, wheel and the "focus"
\* button.
NextCamera ==
    \/ MousePan
    \/ KeyPan
    \/ WheelZoom
    \/ HistoryStage
    \/ ClickFocus
    \/ Untouched

SpecCamera == Init /\ [][NextCamera]_vars

\* ================================================================ claims
\* The moves of the random walk: one unit along one axis.
UnitMove(e, f) ==
    \/ f.y = e.y /\ (f.x = e.x + 1 \/ f.x = e.x - 1)
    \/ f.x = e.x /\ (f.y = e.y + 1 \/ f.y = e.y - 1)

\* st advanced by one update_simulation step, for some draws.
OneStepFrom(st) ==
    { update_simulation(st, 0, draws) : draws \in [1..Len(st.entities) -> Draws] }

\* A step that appends a snapshot.
Appends == Len(rewind_buffer') = Len(rewind_buffer) + 1

\* C1. Scrub replacement: a history stage that runs paused with the slider
\* at i in 0..max_buffer_index leaves the working state equal to entry i.
C1_ScrubReplacement ==
    [][(pc = "history" /\ paused /\ slider_value \in 0..max_buffer_index)
          => /\ state' = rewind_buffer[slider_value + 1]
             /\ rewind_buffer' = rewind_buffer]_vars

\* A paused frame has shown an entry other than the newest one.
C1_Witness ==
    /\ last = "HistoryPaused"
    /\ slider_value < max_buffer_index
    /\ state = rewind_buffer[slider_value + 1]
    /\ state # rewind_buffer[max_buffer_index + 1]

\* C2. No out-of-range history access: whenever a history stage is about to
\* run, slider_value is an index of rewind_buffer, and the unguarded read of
\* the re-synchronisation never panics.
C2_NoOutOfRange ==
    /\ pc = "history" => slider_value < Len(rewind_buffer)
    /\ ~(pc = "aborted" /\ last = "HistoryResync")

\* The unguarded read of the re-synchronisation has run.
C2_Witness ==
    /\ last = "HistoryResync"
    /\ pc = "ui"
    /\ stale # {}

\* C3. The history buffer is append-only: every step leaves its length or
\* adds one entry at the end, and keeps every stored entry.
C3_AppendOnly ==
    [][/\ Len(rewind_buffer') \in {Len(rewind_buffer), Len(rewind_buffer) + 1}
       /\ SubSeq(rewind_buffer', 1, Len(rewind_buffer)) = rewind_buffer]_vars

\* A snapshot was appended after scrubbing back and resuming.
C3_Witness ==
    /\ last = "HistoryResync"
    /\ Len(rewind_buffer) >= 3
    /\ current_index = Len(rewind_buffer) - 1

\* C4. Load does not alter history: a Load leaves rewind_buffer,
\* max_buffer_index, slider_value and current_index as they were.
C4_LoadKeepsHistory ==
    [][last' = "ClickLoad" => UNCHANGED bufferVars]_vars

\* A Load has replaced the working state, with a history of several entries.
C4_Witness ==
    /\ last = "ClickLoad"
    /\ pc = "input"
    /\ Len(rewind_buffer) >= 2
    /\ \A k \in 1..Len(rewind_buffer) : rewind_buffer[k] # state

\* C5. Resume after a scrub: the first snapshot after resuming from index
\* i < max_buffer_index (no slider move or load since) is one update step
\* from entry i, is appended at the end, and leaves the three indices on it.
C5_ResumeFromScrub ==
    [][(resume_from >= 0 /\ Appends)
          => /\ rewind_buffer'[Len(rewind_buffer) + 1]
                   \in OneStepFrom(rewind_buffer[resume_from + 1])
             /\ SubSeq(rewind_buffer', 1, Len(rewind_buffer)) = rewind_buffer
             /\ current_index' = Len(rewind_buffer') - 1
             /\ slider_value' = Len(rewind_buffer') - 1
             /\ max_buffer_index' = Len(rewind_buffer') - 1]_vars

\* The first snapshot after a resume from an earlier index has been stored,
\* and it differs from every step out of the entry that was the newest.
C5_Witness ==
    /\ last = "HistoryResync"
    /\ resume_from >= 0
    /\ resume_from + 1 < max_buffer_index
    /\ rewind_buffer[max_buffer_index + 1] \notin OneStepFrom(rewind_buffer[max_buffer_index])

\* C6 as written. Stale tail never read again: no history stage reads an
\* index left behind by a resume from an earlier index.
C6_StaleNeverRead ==
    pc = "history" => ReadIndex \notin stale

\* C6 as amended. A history stage reads no index but slider_value, and
\* slider_value comes onto a stale index only by a move of the time slider.
C6_StaleReadOnlyBySlider ==
    /\ [](pc = "history" /\ ReadIndex >= 0 => ReadIndex = slider_value)
    /\ [][(slider_value' \in stale' /\ slider_value \notin stale)
             => last' = "MoveTimeSlider"]_vars

\* A paused frame has shown a stale entry the slider was moved onto.
C6_Witness ==
    /\ last = "HistoryPaused"
    /\ slider_value \in stale
    /\ state = rewind_buffer[slider_value + 1]

\* C7. History append cadence: a running frame appends exactly when
\* elapsed_time + frame_time * speed reaches the interval, then resets
\* elapsed_time and puts the slider on the new entry, and otherwise adds
\* frame_time * speed; at unchanged speed the running frame time between two
\* appends, times the speed, is at least the interval and was below it
\* before the last frame.
C7_AppendCadence ==
    [][(pc = "history" /\ ~paused)
          => /\ IF elapsed_time + frame_time * speed >= RewindInterval
                THEN /\ Appends
                     /\ elapsed_time' = 0
                     /\ slider_value' = Len(rewind_buffer') - 1
                ELSE /\ rewind_buffer' = rewind_buffer
                     /\ elapsed_time' = elapsed_time + frame_time * speed
             /\ (Appends /\ IntervalWall >= 0)
                   => /\ (IntervalWall + frame_time) * speed >= RewindInterval
                      /\ IntervalWall * speed < RewindInterval]_vars

\* A snapshot was appended after an interval of several frames at one speed.
C7_Witness ==
    /\ last \in {"HistorySnapshot", "HistoryResync"}
    /\ elapsed_time = 0
    /\ wall = 3
    /\ Len(rewind_buffer) >= 3

\* C8. Save/load round trip: a Load of the file that holds the saved working
\* state succeeds and yields that state.
C8_SaveLoadRoundTrip ==
    [][(pc = "ui" /\ last' = "ClickLoad" /\ file = ToJson(state))
          => (pc' # "aborted" /\ state' = state)]_vars

\* C9. Random-walk update: a snapshot differs from the state it was advanced
\* from by one unit move of every entity, with the same entities and time.
C9_RandomWalk ==
    [][Appends
          => LET base == IF current_index # max_buffer_index
                         THEN rewind_buffer[slider_value + 1] ELSE state
                 new == rewind_buffer'[Len(rewind_buffer) + 1]
             IN  /\ new.time = base.time
                 /\ Len(new.entities) = Len(base.entities)
                 /\ \A k \in 1..Len(base.entities) :
                       UnitMove(base.entities[k], new.entities[k])]_vars

\* C10. Zoom clamp: both zoom axes stay within [min_zoom, max_zoom], and
\* only a wheel tick changes the zoom.
C10_ZoomClamp ==
    /\ [](/\ camera.zoom.x \in MinZoom..MaxZoom
          /\ camera.zoom.y \in MinZoom..MaxZoom)
    /\ [][camera'.zoom # camera.zoom => last' = "WheelZoom"]_vars

\* A wheel tick has left the zoom at its upper bound, away from the home
\* target.
C10_Witness ==
    /\ last = "WheelZoom"
    /\ camera.zoom.x = MaxZoom
    /\ camera.zoom.y = MaxZoom
    /\ camera.target.x # HomeTarget

\* C11. Persistence failures are fatal: a Load of a file that is missing or
\* does not parse ends the program with the working state as it was, a Load
\* that goes on has put the whole parsed document in the working state, a
\* Save that goes on has written the whole document, and no step follows
\* the end of the program.
C11_FailuresFatal ==
    [][/\ (pc = "ui" /\ last' = "ClickLoad" /\ ~Parses(file))
             => (pc' = "aborted" /\ state' = state)
       /\ (last' = "ClickLoad" /\ pc' # "aborted") => state' = FromJson(file)
       /\ (last' = "ClickSave" /\ file' # ToJson(state)) => pc' = "aborted"
       /\ (last' = "ClickSave" /\ pc' = "aborted") => state' = state
       /\ pc # "aborted"]_vars

\* A Load of a file that does not parse has ended the program, with a
\* history of several entries and the working state kept.
C11_Witness ==
    /\ pc = "aborted"
    /\ last = "ClickLoad"
    /\ ~Parses(file)
    /\ Len(rewind_buffer) >= 2
    /\ state = rewind_buffer[Len(rewind_buffer)]

\* C12. Wheel zoom keeps the point under the cursor fixed on screen: the
\* world point under the pointer before a wheel tick is drawn at the
\* pointer's position after the tick.
C12_ZoomFixedPoint ==
    [][last' = "WheelZoom"
          => WorldToScreen(camera', ScreenToWorld(camera, old_mouse_position))
                = old_mouse_position]_vars

\* C13. After a Load performed while running, the next snapshot appended is
\* one update_simulation step from the loaded state.
C13_LoadContinues ==
    [][(Appends /\ loaded.pending /\ loaded.running)
          => rewind_buffer'[Len(rewind_buffer) + 1] \in OneStepFrom(loaded.st)]_vars

\* C14. No snapshot is taken while paused: a step of a paused frame leaves
\* rewind_buffer, max_buffer_index and elapsed_time as they were, its
\* history stage changes nothing of the program but the working state and
\* current_index, and the clicks that pause and resume keep elapsed_time.
C14_PausedKeepsHistory ==
    [][/\ paused => UNCHANGED << rewind_buffer, max_buffer_index, elapsed_time >>
       /\ (pc = "history" /\ paused)
             => UNCHANGED << paused, speed, slider_value, camera,
                             old_mouse_position, file >>
       /\ paused' # paused => elapsed_time' = elapsed_time]_vars

\* A paused frame has put an older entry in the working state while time
\* accumulated before the pause is kept.
C14_Witness ==
    /\ last = "HistoryPaused"
    /\ elapsed_time > 0
    /\ current_index < max_buffer_index
    /\ state # rewind_buffer[Len(rewind_buffer)]

\* C15. Snapshots keep being taken while running: from every state with n
\* entries in the buffer (n below the longest buffer explored) the frame
\* loop leads to a buffer of n + 1 entries, unless the program is paused or
\* has ended on the way.
C15_SnapshotsKeepComing ==
    \A n \in 1..(MaxBuf - 1) :
        (Len(rewind_buffer) = n)
            ~> (Len(rewind_buffer) = n + 1 \/ paused \/ pc = "aborted")

\* The buffer has been filled by snapshots in a run that was never paused
\* and whose speed was lowered on the way.
C15_Witness ==
    /\ Len(rewind_buffer) = MaxBuf
    /\ last = "HistorySnapshot"
    /\ stale = {}
    /\ speed < InitSpeed

\* The frame that has just ended appended a snapshot: its history stage ran
\* unpaused and left elapsed_time at 0, which a running frame does only by
\* the reset after a push.
AppendedThisFrame ==
    /\ pc = "input"
    /\ elapsed_time = 0
    /\ \/ last = "ClickPause" /\ paused
       \/ /\ last \in {"MoveSpeedSlider", "MoveTimeSlider", "ClickSave",
                        "ClickLoad", "Untouched"}
          /\ ~paused

\* max_buffer_index = len - 1 and both other indices are at most that.
IndicesInRange ==
    /\ max_buffer_index = Len(rewind_buffer) - 1
    /\ slider_value <= max_buffer_index
    /\ current_index <= max_buffer_index

\* The three indices and the working state are on the newest entry.
OnNewest ==
    /\ current_index = max_buffer_index
    /\ slider_value = max_buffer_index
    /\ state = rewind_buffer[Len(rewind_buffer)]

\* C16 as written. Index bookkeeping: at every frame boundary the indices
\* are in range, and at the boundary after a frame that appended a snapshot
\* the three indices and the working state are on the newest entry.
C16_IndexBookkeeping ==
    /\ pc = "input" => IndicesInRange
    /\ AppendedThisFrame => OnNewest

\* C16 as amended. The indices are in range at every stage; the history
\* stage that appends leaves the indices and the working state on the newest
\* entry; at the frame boundary they are still there unless the menu of
\* that frame moved the time slider or loaded a state.
C16_IndexBookkeepingAfterStage ==
    /\ []IndicesInRange
    /\ [][Appends => OnNewest']_vars
    /\ []((AppendedThisFrame /\ last \notin {"MoveTimeSlider", "ClickLoad"})
             => OnNewest)

\* A frame has appended the snapshot that follows a resume from an earlier
\* index, and its menu was left alone.
C16_Witness ==
    /\ AppendedThisFrame
    /\ last = "Untouched"
    /\ stale # {}
    /\ OnNewest
    /\ Len(rewind_buffer) >= 3

C18_PausedLoadReplaced ==
    [][(pc = "history" /\ paused /\ loaded.pending /\ ~loaded.running)
          => state' = rewind_buffer[slider_value + 1]]_vars

\* A state loaded while paused has been replaced by the entry under the
\* slider, which is where the last snapshot left it.
C18_Witness ==
    /\ last = "HistoryPaused"
    /\ ~loaded.pending
    /\ Len(loaded.st.entities) > 0
    /\ slider_value = max_buffer_index
    /\ stale = {}
    /\ state = rewind_buffer[slider_value + 1]
    /\ state # loaded.st

\* C19. When Load is never clicked, the working state at the end of every
\* history stage is an entry of rewind_buffer, and every entry at an index
\* k >= 1 is one update_simulation step from an entry at a smaller index.
C19_StateFromBuffer ==
    /\ pc = "ui" => \E k \in 1..Len(rewind_buffer) : state = rewind_buffer[k]
    /\ \A k \in 2..Len(rewind_buffer) :
          \E j \in 1..(k - 1) : rewind_buffer[k] \in OneStepFrom(rewind_buffer[j])

\* The snapshot after a resume from the first entry has been stored: it is
\* one step from that entry and not from the entry before it in the buffer.
C19_Witness ==
    /\ last = "HistoryResync"
    /\ pc = "ui"
    /\ Len(rewind_buffer) = 3
    /\ state = rewind_buffer[3]
    /\ rewind_buffer[3] \in OneStepFrom(rewind_buffer[1])
    /\ rewind_buffer[3] \notin OneStepFrom(rewind_buffer[2])

====
